---- MODULE Spec2Model ----
(***************************************************************************)
(* A model of skandragon/collatz: the Collatz stepper (iterate), the       *)
(* per-packet scan loop (run) in its parallel and single-worker variants,  *)
(* the partitioning loop of the parallel main with its sync.WaitGroup, and *)
(* the evidence authenticator (evidenceHash).                              *)
(*                                                                         *)
(* *big.Int values are modelled as heap cells: a pointer is an address     *)
(* <<name, k, i>> and `heap` maps every allocated address to its integer,  *)
(* so that in-place arithmetic (z.Add(x, y) writes the cell z) and         *)
(* aliasing are visible to the properties.  The program's magnitudes       *)
(* (2^40+1, 2^67+1, blocksize 10^8) are scaled down to small numbers.      *)
(***************************************************************************)
EXTENDS Integers, Sequences, FiniteSets, TLC

VARIABLES
    \* ---- iterate, run as a machine of its own (one loop pass per step)
    s,              \* the seed iterate was called with
    n,              \* iterate's local n
    iterCount,      \* iterate's named result iterCount
    interesting,    \* iterate's named result interesting
    pcIter,         \* "off" | "loop" | "returned"
    \* ---- main, the workers and run
    heap,           \* address -> integer: every allocated big.Int
    blocksize,      \* blocksize_int, scaled down
    pcMain,         \* position of main
    workerID,       \* main's loop variable
    starting,       \* main's local pointer `starting`
    ending,         \* main's local pointer `ending`
    wg,             \* sync.WaitGroup counter
    work,           \* worker -> the WorkPacket its goroutine captured
    pcW,            \* worker -> position of the goroutine
    current,        \* worker -> run's local pointer `current`
    totalIterations,    \* worker -> run's local totalIterations
    maxIterations,      \* worker -> run's local maxIterations
    interestingNumbers, \* worker -> run's local slice of pointers
    returned,       \* worker -> what run returned (values of the pointers as logged)
    invoked,        \* worker -> the seeds iterate was invoked on, in order (history)
    initial0,       \* the value `initial` had before the partitioning loop (history)
    logged,         \* worker -> what the goroutine logged of run's results
    \* ---- evidenceHash
    hashIn,         \* the arguments of the last two calls of evidenceHash
    hashOut         \* the results of those calls

vars == <<s, n, iterCount, interesting, pcIter,
          heap, blocksize, pcMain, workerID, starting, ending, wg, work, pcW,
          current, totalIterations, maxIterations, interestingNumbers,
          returned, invoked, initial0, logged, hashIn, hashOut>>

iterVars == <<s, n, iterCount, interesting, pcIter>>
progVars == <<heap, blocksize, pcMain, workerID, starting, ending, wg, work, pcW,
              current, totalIterations, maxIterations, interestingNumbers,
              returned, invoked, initial0, logged>>
hashVars == <<hashIn, hashOut>>

----------------------------------------------------------------------------
(* Bounds of the model.  Every seed the model passes to iterate stays below  *)
(* 27, the first seed whose descent takes 96 passes: the recursive          *)
(* definitions that follow a descent are evaluated to a depth of about 70.  *)
(* The uint64 accumulators never come near 2^64 here, so their wrap-around  *)
(* is not modelled.                                                         *)

\* seeds given to iterate range over 1..MaxSeed
MaxSeed == 25
\* iterate's loop is followed for at most MaxIterCount passes
MaxIterCount == 30

\* `initial` ranges over the odd numbers of 1..MaxInitial
MaxInitial == 5
\* blocksize_int ranges over the even numbers of 2..MaxBlock
MaxBlock == 4
\* a packet given to run alone starts at an odd number of 1..MaxStart ...
MaxStart == 7
\* ... and ends at most MaxSpan above its start
MaxSpan == 5

(* Program constants *)
\* the number of workers main starts
NumWorkers == 4
one == 1
two == 2
three == 3

----------------------------------------------------------------------------
(* big.Int primitives on integers *)

\* x.Cmp(y)
Cmp(x, y) == IF x < y THEN -1 ELSE IF x = y THEN 0 ELSE 1

\* n.Bit(0)
Bit0(x) == x % 2

\* n.Rsh(n, 1)
Rsh1(x) == x \div 2

----------------------------------------------------------------------------
(* iterate *)

\* the odd branch without n.Add(n, one)
TransitionNoAdd(x) == IF Bit0(x) = 0 THEN Rsh1(x) ELSE x * three

\* one Collatz transition: the if/else of iterate's loop body
Transition(x) == IF Bit0(x) = 0 THEN Rsh1(x) ELSE x * three + one

\* iterate as a function: the loop unrolled, from local state (x, cnt).
\* (the loop is a function of the pair of values <<n, iterCount>>, so that each
\* pass starts from values and not from the expressions that produced them)
IterLoop(x, seed, cnt) ==
    LET Loop[st \in Int \X Nat] ==
            LET x1 == Transition(st[1])
                c  == Cmp(x1, seed)
            IN  IF c = 0 THEN [interesting |-> TRUE, iterCount |-> st[2] + 1]
                ELSE IF c = -1 THEN [interesting |-> FALSE, iterCount |-> st[2] + 1]
                ELSE Loop[<<x1, st[2] + 1>>]
    IN  Loop[<<x, cnt>>]

iterate(seed) == IterLoop(seed, seed, 0)

NoProg ==
    /\ heap = << >> /\ blocksize = 0 /\ pcMain = "off" /\ workerID = 0
    /\ starting = << >> /\ ending = << >> /\ wg = 0 /\ work = << >> /\ pcW = << >>
    /\ current = << >> /\ totalIterations = << >> /\ maxIterations = << >>
    /\ interestingNumbers = << >> /\ returned = << >> /\ invoked = << >>
    /\ initial0 = 0 /\ logged = << >>

NoIter ==
    /\ s = 0 /\ n = 0 /\ iterCount = 0 /\ interesting = FALSE /\ pcIter = "off"

NoHash ==
    /\ hashIn = << >> /\ hashOut = << >>

\* entry of iterate: n := big.NewInt(0); n.Add(n, s); the named results are zero
InitIterate ==
    /\ s \in 1..MaxSeed
    /\ n = 0 + s
    /\ iterCount = 0
    /\ interesting = FALSE
    /\ pcIter = "loop"
    /\ NoProg /\ NoHash

\* a pass that logs the loop back to the seed and goes on, as the early stepper did
IterStepLogOnly ==
    /\ pcIter = "loop"
    /\ iterCount < MaxIterCount
    /\ LET n1 == Transition(n)
           c  == Cmp(n1, s)
       IN  /\ n' = n1
           /\ iterCount' = iterCount + 1
           /\ IF c = -1
              THEN interesting' = FALSE /\ pcIter' = "returned"
              ELSE UNCHANGED <<interesting, pcIter>>
    /\ s' = s
    /\ UNCHANGED <<progVars, hashVars>>

\* a pass that returns false also when n is back at the seed
IterStepNeverInteresting ==
    /\ pcIter = "loop"
    /\ iterCount < MaxIterCount
    /\ LET n1 == Transition(n)
           c  == Cmp(n1, s)
       IN  /\ n' = n1
           /\ iterCount' = iterCount + 1
           /\ IF c = 0 \/ c = -1
              THEN interesting' = FALSE /\ pcIter' = "returned"
              ELSE UNCHANGED <<interesting, pcIter>>
    /\ s' = s
    /\ UNCHANGED <<progVars, hashVars>>

\* one pass of iterate's for loop
IterStep ==
    /\ pcIter = "loop"
    /\ iterCount < MaxIterCount
    /\ LET n1 == Transition(n)
           c  == Cmp(n1, s)
       IN  /\ n' = n1
           /\ iterCount' = iterCount + 1
           /\ IF c = 0
              THEN interesting' = TRUE /\ pcIter' = "returned"
              ELSE IF c = -1
                   THEN interesting' = FALSE /\ pcIter' = "returned"
                   ELSE UNCHANGED <<interesting, pcIter>>
    /\ s' = s
    /\ UNCHANGED <<progVars, hashVars>>

NextIterate == IterStep

SpecIterate == InitIterate /\ [][NextIterate]_vars

\* the loop of iterate keeps running until it returns
FairIterate == SpecIterate /\ WF_vars(IterStep)

----------------------------------------------------------------------------
(* The heap of big.Int cells *)

Workers == 0..(NumWorkers - 1)

NilAddr == <<"nil", 0, 0>>
AInitial == <<"initial", 0, 0>>
ABlocksize == <<"blocksize", 0, 0>>
AStarting(k) == <<"starting", k, 0>>
AEnding(k) == <<"ending", k, 0>>
ACurrent(k) == <<"current", k, 0>>
AFound(k, i) == <<"v", k, i>>

\* a := big.NewInt(v), a a fresh cell
NewInt(h, a, v) == (a :> v) @@ h

\* z.Add(x, y): the cell z is overwritten with x + y
BigAdd(h, z, x, y) == [h EXCEPT ![z] = h[x] + h[y]]

\* a := big.NewInt(0); a.Add(a, src)
NewCopy(h, a, src) == BigAdd(NewInt(h, a, 0), a, a, src)

NoPacket == [ID |-> "", Nonce |-> "", StartingValue |-> NilAddr, EndingValue |-> NilAddr]

Packet(st, en) ==
    [ID |-> "id-of-packet", Nonce |-> "nonce-of-packet",
     StartingValue |-> st, EndingValue |-> en]

Initials == {i \in 1..MaxInitial : i % 2 = 1}
BlockSizes == {b \in 2..MaxBlock : b % 2 = 0}

NoWorkers ==
    /\ pcW = [k \in Workers |-> "none"]
    /\ work = [k \in Workers |-> NoPacket]
    /\ current = [k \in Workers |-> NilAddr]
    /\ totalIterations = [k \in Workers |-> 0]
    /\ maxIterations = [k \in Workers |-> 0]
    /\ interestingNumbers = [k \in Workers |-> << >>]
    /\ returned = [k \in Workers |-> << >>]
    /\ invoked = [k \in Workers |-> << >>]
    /\ logged = [k \in Workers |-> << >>]

----------------------------------------------------------------------------
(* main of the parallel variant *)

\* main up to the partitioning loop: initial has bit 0 set, the wait group is empty
Init ==
    /\ blocksize \in BlockSizes
    /\ initial0 \in Initials
    /\ heap = NewInt(NewInt(<< >>, ABlocksize, blocksize), AInitial, initial0)
    /\ pcMain = "loop"
    /\ workerID = 0
    /\ starting = NilAddr
    /\ ending = NilAddr
    /\ wg = 0
    /\ NoWorkers
    /\ NoIter /\ NoHash

\* the loop head without the wg.Add(1)
MainAddNoRegister ==
    /\ pcMain = "loop"
    /\ workerID < NumWorkers
    /\ pcMain' = "starting"
    /\ UNCHANGED <<heap, blocksize, workerID, starting, ending, wg, work, pcW, current,
                   totalIterations, maxIterations, interestingNumbers, returned,
                   invoked, initial0, logged>>
    /\ UNCHANGED <<iterVars, hashVars>>

\* for workerID < 4 { wg.Add(1)
MainAdd ==
    /\ pcMain = "loop"
    /\ workerID < NumWorkers
    /\ wg' = wg + 1
    /\ pcMain' = "starting"
    /\ UNCHANGED <<heap, blocksize, workerID, starting, ending, work, pcW, current,
                   totalIterations, maxIterations, interestingNumbers, returned,
                   invoked, initial0, logged>>
    /\ UNCHANGED <<iterVars, hashVars>>

\* starting := initial, the pointer and not a copy
MainStartingAlias ==
    /\ pcMain = "starting"
    /\ starting' = AInitial
    /\ pcMain' = "advance"
    /\ UNCHANGED <<heap, blocksize, workerID, ending, wg, work, pcW, current,
                   totalIterations, maxIterations, interestingNumbers, returned,
                   invoked, initial0, logged>>
    /\ UNCHANGED <<iterVars, hashVars>>

\* starting := big.NewInt(0); starting.Add(starting, initial)
MainStarting ==
    /\ pcMain = "starting"
    /\ starting' = AStarting(workerID)
    /\ heap' = NewCopy(heap, AStarting(workerID), AInitial)
    /\ pcMain' = "advance"
    /\ UNCHANGED <<blocksize, workerID, ending, wg, work, pcW, current,
                   totalIterations, maxIterations, interestingNumbers, returned,
                   invoked, initial0, logged>>
    /\ UNCHANGED <<iterVars, hashVars>>

\* initial.Add(initial, blocksize)
MainAdvance ==
    /\ pcMain = "advance"
    /\ heap' = BigAdd(heap, AInitial, AInitial, ABlocksize)
    /\ pcMain' = "ending"
    /\ UNCHANGED <<blocksize, workerID, starting, ending, wg, work, pcW, current,
                   totalIterations, maxIterations, interestingNumbers, returned,
                   invoked, initial0, logged>>
    /\ UNCHANGED <<iterVars, hashVars>>

\* ending built from initial, which has been advanced already, instead of starting
MainEndingFromInitial ==
    /\ pcMain = "ending"
    /\ ending' = AEnding(workerID)
    /\ heap' = BigAdd(NewCopy(heap, AEnding(workerID), AInitial),
                      AEnding(workerID), AEnding(workerID), ABlocksize)
    /\ pcMain' = "go"
    /\ UNCHANGED <<blocksize, workerID, starting, wg, work, pcW, current,
                   totalIterations, maxIterations, interestingNumbers, returned,
                   invoked, initial0, logged>>
    /\ UNCHANGED <<iterVars, hashVars>>

\* ending := big.NewInt(0); ending.Add(ending, starting); ending.Add(ending, blocksize)
MainEnding ==
    /\ pcMain = "ending"
    /\ ending' = AEnding(workerID)
    /\ heap' = BigAdd(NewCopy(heap, AEnding(workerID), starting),
                      AEnding(workerID), AEnding(workerID), ABlocksize)
    /\ pcMain' = "go"
    /\ UNCHANGED <<blocksize, workerID, starting, wg, work, pcW, current,
                   totalIterations, maxIterations, interestingNumbers, returned,
                   invoked, initial0, logged>>
    /\ UNCHANGED <<iterVars, hashVars>>

\* work := &WorkPacket{...}; go func(workerID int) {...}(workerID); workerID++
MainGo ==
    /\ pcMain = "go"
    /\ work' = [work EXCEPT ![workerID] = Packet(starting, ending)]
    /\ pcW' = [pcW EXCEPT ![workerID] = "start"]
    /\ workerID' = workerID + 1
    /\ pcMain' = "loop"
    /\ UNCHANGED <<heap, blocksize, starting, ending, wg, current,
                   totalIterations, maxIterations, interestingNumbers, returned,
                   invoked, initial0, logged>>
    /\ UNCHANGED <<iterVars, hashVars>>

\* the loop ends at workerID = 4; wg.Wait() blocks until the counter is zero
MainWait ==
    /\ pcMain = "loop"
    /\ ~(workerID < NumWorkers)
    /\ wg = 0
    /\ pcMain' = "exit"
    /\ UNCHANGED <<heap, blocksize, workerID, starting, ending, wg, work, pcW, current,
                   totalIterations, maxIterations, interestingNumbers, returned,
                   invoked, initial0, logged>>
    /\ UNCHANGED <<iterVars, hashVars>>

----------------------------------------------------------------------------
(* run: the scan of one packet *)

\* shouldEnd >= 0 breaks the loop (parallel variant)
shouldBreak(shouldEnd) == shouldEnd >= 0

\* shouldEnd > 0 breaks the loop (single-worker variant, src/app/crunch)
shouldBreakCrunch(shouldEnd) == shouldEnd > 0

\* the values the pointers of a slice point to, as the log line formats them
Deref(h, ptrs) == [i \in 1..Len(ptrs) |-> h[ptrs[i]]]

\* entry of run: current is a copy of work.StartingValue, the accumulators are zero
RunStart(k) ==
    /\ pcW[k] = "start"
    /\ current' = [current EXCEPT ![k] = ACurrent(k)]
    /\ heap' = NewCopy(heap, ACurrent(k), work[k].StartingValue)
    /\ interestingNumbers' = [interestingNumbers EXCEPT ![k] = << >>]
    /\ totalIterations' = [totalIterations EXCEPT ![k] = 0]
    /\ maxIterations' = [maxIterations EXCEPT ![k] = 0]
    /\ pcW' = [pcW EXCEPT ![k] = "loop"]
    /\ UNCHANGED <<blocksize, pcMain, workerID, starting, ending, wg, work,
                   returned, invoked, initial0, logged>>
    /\ UNCHANGED <<iterVars, hashVars>>

\* a pass that appends the cursor itself to the slice instead of a copy of it
LoopBodyAppendCursor(k, brk) ==
    /\ pcW[k] = "loop"
    /\ LET cur == heap[current[k]]
           r   == iterate(cur)
       IN  /\ invoked' = [invoked EXCEPT ![k] = Append(@, cur)]
           /\ totalIterations' = [totalIterations EXCEPT ![k] = @ + r.iterCount]
           /\ maxIterations' =
                 [maxIterations EXCEPT ![k] = IF @ < r.iterCount THEN r.iterCount ELSE @]
           /\ interestingNumbers' =
                 [interestingNumbers EXCEPT
                    ![k] = IF r.interesting THEN Append(@, current[k]) ELSE @]
           /\ IF brk
              THEN /\ pcW' = [pcW EXCEPT ![k] = "ret"]
                   /\ heap' = heap
              ELSE /\ heap' = [heap EXCEPT ![current[k]] = @ + two]
                   /\ pcW' = pcW
    /\ UNCHANGED <<blocksize, pcMain, workerID, starting, ending, wg, work, current,
                   returned, initial0, logged>>
    /\ UNCHANGED <<iterVars, hashVars>>

\* one pass of run's for loop; brk is the outcome of the variant's break test.
\* (the progress line every 10000000 passes only logs and is left out)
LoopBody(k, brk) ==
    /\ pcW[k] = "loop"
    /\ LET cur   == heap[current[k]]
           r     == iterate(cur)
           v     == AFound(k, Len(interestingNumbers[k]) + 1)
           heap1 == IF r.interesting THEN NewCopy(heap, v, current[k]) ELSE heap
       IN  /\ invoked' = [invoked EXCEPT ![k] = Append(@, cur)]
           /\ totalIterations' = [totalIterations EXCEPT ![k] = @ + r.iterCount]
           /\ maxIterations' =
                 [maxIterations EXCEPT ![k] = IF @ < r.iterCount THEN r.iterCount ELSE @]
           /\ interestingNumbers' =
                 [interestingNumbers EXCEPT
                    ![k] = IF r.interesting THEN Append(@, v) ELSE @]
           /\ IF brk
              THEN /\ pcW' = [pcW EXCEPT ![k] = "ret"]
                   /\ heap' = heap1
              ELSE /\ heap' = [heap1 EXCEPT ![current[k]] = @ + two]
                   /\ pcW' = pcW
    /\ UNCHANGED <<blocksize, pcMain, workerID, starting, ending, wg, work, current,
                   returned, initial0, logged>>
    /\ UNCHANGED <<iterVars, hashVars>>

\* the loop pass of the parallel variant
RunLoop(k) ==
    LoopBody(k, shouldBreak(Cmp(heap[current[k]], heap[work[k].EndingValue])))

\* the loop pass of the single-worker variant
CrunchRunLoop(k) ==
    LoopBody(k, shouldBreakCrunch(Cmp(heap[current[k]], heap[work[k].EndingValue])))

\* after the loop: the block's log lines, then
\* return totalIterations, maxIterations, interestingNumbers
RunReturn(k) ==
    /\ pcW[k] = "ret"
    /\ returned' = [returned EXCEPT
                      ![k] = [totalIterations |-> totalIterations[k],
                              maxIterations |-> maxIterations[k],
                              interesting |-> Deref(heap, interestingNumbers[k])]]
    /\ pcW' = [pcW EXCEPT ![k] = "log"]
    /\ UNCHANGED <<heap, blocksize, pcMain, workerID, starting, ending, wg, work,
                   current, totalIterations, maxIterations, interestingNumbers,
                   invoked, initial0, logged>>
    /\ UNCHANGED <<iterVars, hashVars>>

\* a goroutine that ends without the deferred wg.Done()
WorkerDoneNoDone(k) ==
    /\ pcW[k] = "log"
    /\ logged' = [logged EXCEPT
                    ![k] = [totalIterations |-> returned[k].totalIterations,
                            found |-> returned[k].interesting,
                            averageDividend |-> returned[k].totalIterations,
                            averageDivisor |-> blocksize,
                            max |-> returned[k].maxIterations]]
    /\ pcW' = [pcW EXCEPT ![k] = "done"]
    /\ UNCHANGED <<heap, blocksize, pcMain, workerID, starting, ending, wg, work,
                   current, totalIterations, maxIterations, interestingNumbers,
                   returned, invoked, initial0>>
    /\ UNCHANGED <<iterVars, hashVars>>

\* the goroutine logs what run returned and ends; the deferred wg.Done() runs.
\* the average is float64(totalInterations)/float64(blocksize_int), kept as its
\* dividend and divisor
WorkerDone(k) ==
    /\ pcW[k] = "log"
    /\ logged' = [logged EXCEPT
                    ![k] = [totalIterations |-> returned[k].totalIterations,
                            found |-> returned[k].interesting,
                            averageDividend |-> returned[k].totalIterations,
                            averageDivisor |-> blocksize,
                            max |-> returned[k].maxIterations]]
    /\ wg' = wg - 1
    /\ pcW' = [pcW EXCEPT ![k] = "done"]
    /\ UNCHANGED <<heap, blocksize, pcMain, workerID, starting, ending, work,
                   current, totalIterations, maxIterations, interestingNumbers,
                   returned, invoked, initial0>>
    /\ UNCHANGED <<iterVars, hashVars>>

\* run as a function of the packet's two values: the loop of the parallel variant
\* followed from cur with the accumulators tot, mx and the seeds found so far
RECURSIVE RunSeqLoop(_, _, _, _, _)
RunSeqLoop(cur, en, tot, mx, found) ==
    LET r      == iterate(cur)
        tot1   == tot + r.iterCount
        mx1    == IF mx < r.iterCount THEN r.iterCount ELSE mx
        found1 == IF r.interesting THEN Append(found, cur) ELSE found
    IN  IF shouldBreak(Cmp(cur, en))
        THEN [totalIterations |-> tot1, maxIterations |-> mx1, interesting |-> found1]
        ELSE RunSeqLoop(cur + two, en, tot1, mx1, found1)

RunSeq(st, en) == RunSeqLoop(st, en, 0, 0, << >>)

Next ==
    \/ MainAdd
    \/ MainStarting
    \/ MainAdvance
    \/ MainEnding
    \/ MainGo
    \/ MainWait
    \/ \E k \in Workers : RunStart(k)
    \/ \E k \in Workers : RunLoop(k)
    \/ \E k \in Workers : RunReturn(k)
    \/ \E k \in Workers : WorkerDone(k)

\* the parallel program
Spec == Init /\ [][Next]_vars

----------------------------------------------------------------------------
(* run given a packet of its own *)

\* a packet with an odd startingValue and endingValue >= startingValue, handed to worker 0
InitRun ==
    /\ \E st \in {i \in 1..MaxStart : i % 2 = 1} : \E en \in st..(st + MaxSpan) :
          heap = NewInt(NewInt(<< >>, AStarting(0), st), AEnding(0), en)
    /\ blocksize = 0
    /\ initial0 = 0
    /\ pcMain = "off"
    /\ workerID = 0
    /\ starting = NilAddr
    /\ ending = NilAddr
    /\ wg = 0
    /\ pcW = [k \in Workers |-> IF k = 0 THEN "start" ELSE "none"]
    /\ work = [k \in Workers |-> IF k = 0 THEN Packet(AStarting(0), AEnding(0)) ELSE NoPacket]
    /\ current = [k \in Workers |-> NilAddr]
    /\ totalIterations = [k \in Workers |-> 0]
    /\ maxIterations = [k \in Workers |-> 0]
    /\ interestingNumbers = [k \in Workers |-> << >>]
    /\ returned = [k \in Workers |-> << >>]
    /\ invoked = [k \in Workers |-> << >>]
    /\ logged = [k \in Workers |-> << >>]
    /\ NoIter /\ NoHash

NextRun == RunStart(0) \/ RunLoop(0) \/ RunReturn(0)

\* run of the parallel variant on one packet
SpecRun == InitRun /\ [][NextRun]_vars

NextCrunch == RunStart(0) \/ CrunchRunLoop(0) \/ RunReturn(0)

\* run of the single-worker variant on one packet
SpecCrunch == InitRun /\ [][NextCrunch]_vars

\* iterate on a seed of its own, or run on a packet of its own
NextSeedOrBlock ==
    \/ IterStep
    \/ pcIter = "off" /\ NextRun

SpecSeedOrBlock == (InitIterate \/ InitRun) /\ [][NextSeedOrBlock]_vars

----------------------------------------------------------------------------
(* The program and its goroutines under a fair scheduler *)

\* one goroutine of main, registered with the wait group, started on a packet
\* whose end may have either parity and may lie below its start
InitRunAny ==
    /\ \E st \in {i \in 1..MaxStart : i % 2 = 1} :
          \E en \in (st - MaxSpan)..(st + MaxSpan) :
             heap = NewInt(NewInt(<< >>, AStarting(0), st), AEnding(0), en)
    /\ blocksize = 0
    /\ initial0 = 0
    /\ pcMain = "off"
    /\ workerID = 0
    /\ starting = NilAddr
    /\ ending = NilAddr
    /\ wg = 1
    /\ pcW = [k \in Workers |-> IF k = 0 THEN "start" ELSE "none"]
    /\ work = [k \in Workers |-> IF k = 0 THEN Packet(AStarting(0), AEnding(0)) ELSE NoPacket]
    /\ current = [k \in Workers |-> NilAddr]
    /\ totalIterations = [k \in Workers |-> 0]
    /\ maxIterations = [k \in Workers |-> 0]
    /\ interestingNumbers = [k \in Workers |-> << >>]
    /\ returned = [k \in Workers |-> << >>]
    /\ invoked = [k \in Workers |-> << >>]
    /\ logged = [k \in Workers |-> << >>]
    /\ NoIter /\ NoHash

\* the Go scheduler always runs some goroutine that can take a step: no more is
\* asked of it, since here a step that can be taken stays possible until taken
FairSpec ==
    /\ (Init \/ InitRunAny)
    /\ [][Next]_vars
    /\ WF_vars(Next)

----------------------------------------------------------------------------
(* evidenceHash *)

(* A Go string is a sequence of one-character strings.  The hash and its    *)
(* encoding are not computed: blake3 is a collision-free digest of the      *)
(* bytes written to it, base64 an injective encoding of the digest.         *)

Digits == <<"0", "1", "2", "3", "4", "5", "6", "7", "8", "9">>

\* the decimal representation of a non-negative integer
RECURSIVE Decimal(_)
Decimal(x) ==
    IF x < 10 THEN <<Digits[x + 1]>>
    ELSE Decimal(x \div 10) \o <<Digits[(x % 10) + 1]>>

\* the operands of Sprintf, by their Go type
GoString(str) == [type |-> "string", val |-> str]
GoBigInt(x) == [type |-> "*big.Int", val |-> x]
GoUint64(x) == [type |-> "uint64", val |-> x]

\* what one verb prints for one operand: %s of a string is the string, %s of a
\* *big.Int and %d of a uint64 are the decimal representation
FormatVerb(verb, arg) ==
    IF verb = "%s" /\ arg.type = "string" THEN arg.val
    ELSE IF verb = "%s" /\ arg.type = "*big.Int" THEN Decimal(arg.val)
    ELSE IF verb = "%d" /\ arg.type = "uint64" THEN Decimal(arg.val)
    ELSE <<"%", "!">>

\* fmt.Sprintf over a format given as its verbs and literal characters
RECURSIVE Sprintf(_, _)
Sprintf(format, args) ==
    IF format = << >> THEN << >>
    ELSE IF Head(format) \in {"%s", "%d"}
         THEN FormatVerb(Head(format), Head(args)) \o Sprintf(Tail(format), Tail(args))
         ELSE <<Head(format)>> \o Sprintf(Tail(format), args)

\* "%s:%s:%s:%s:%s:%s:%s:%d:%d"
EvidenceFormat ==
    <<"%s", ":", "%s", ":", "%s", ":", "%s", ":", "%s", ":", "%s", ":", "%s", ":",
      "%d", ":", "%d">>

\* h := blake3.New(); h.Write(bytes); h.Sum(nil)
Blake3Sum(bytes) == [digest |-> "blake3", of |-> bytes]

\* base64.StdEncoding.EncodeToString(sum)
Base64Encode(sum) == [encoding |-> "base64", of |-> sum]

\* the canonical string with the secret before its version
evidenceStringSwapped(user, wp, evidence) ==
    Sprintf(EvidenceFormat,
            <<GoString(wp.ID), GoString(wp.Nonce),
              GoBigInt(wp.StartingValue), GoBigInt(wp.EndingValue),
              GoString(user.UserID), GoString(user.UserSecret),
              GoString(user.UserSecretVersion),
              GoUint64(evidence.TotalIterations), GoUint64(evidence.MaxIterations)>>)

\* the string s evidenceHash builds (parallel variant and package internal)
evidenceString(user, wp, evidence) ==
    Sprintf(EvidenceFormat,
            <<GoString(wp.ID), GoString(wp.Nonce),
              GoBigInt(wp.StartingValue), GoBigInt(wp.EndingValue),
              GoString(user.UserID), GoString(user.UserSecretVersion),
              GoString(user.UserSecret),
              GoUint64(evidence.TotalIterations), GoUint64(evidence.MaxIterations)>>)

evidenceHash(user, wp, evidence) ==
    [UserSecretVersion |-> user.UserSecretVersion,
     AuthenticatorVersion |-> "v1-blake3",
     Authenticator |-> Base64Encode(Blake3Sum(evidenceString(user, wp, evidence)))]

\* the arguments evidenceHash is called with; a packet's two *big.Int are given
\* by value and AssignedOn is the time the packet was made
UserCredentialsSet ==
    [UserID : {<<"u">>, <<"v">>},
     UserSecretVersion : {<<"1">>, <<"2">>},
     UserSecret : {<<"x">>, <<"y">>}]

WorkPacketSet ==
    [ID : {<<"a">>, <<"a", ":">>},
     Nonce : {<<"a">>, <<":", "a">>},
     StartingValue : {1, 11},
     EndingValue : {11, 101},
     AssignedOn : {0, 1}]

WorkEvidenceSet ==
    [TotalIterations : {9, 10}, MaxIterations : {3, 4}]

\* no call of evidenceHash yet
InitHash ==
    /\ hashIn = << >>
    /\ hashOut = << >>
    /\ NoIter /\ NoProg

\* a call of evidenceHash; the two latest calls are kept
CallEvidenceHash ==
    /\ Len(hashIn) < 2
    /\ \E user \in UserCredentialsSet, wp \in WorkPacketSet, evidence \in WorkEvidenceSet :
          /\ hashIn' = Append(hashIn, [user |-> user, work |-> wp, evidence |-> evidence])
          /\ hashOut' = Append(hashOut, evidenceHash(user, wp, evidence))
    /\ UNCHANGED <<iterVars, progVars>>

NextHash == CallEvidenceHash

SpecHash == InitHash /\ [][NextHash]_vars

----------------------------------------------------------------------------
(* evidenceHash of the single-worker variant (src/app/crunch) *)

\* "%s:%s:%s:%s:%d:%d"
EvidenceFormatCrunch ==
    <<"%s", ":", "%s", ":", "%s", ":", "%s", ":", "%d", ":", "%d">>

\* the string s: the packet's four fields and the evidence, nothing of the user
evidenceStringCrunch(user, wp, evidence) ==
    Sprintf(EvidenceFormatCrunch,
            <<GoString(wp.ID), GoString(wp.Nonce),
              GoBigInt(wp.StartingValue), GoBigInt(wp.EndingValue),
              GoUint64(evidence.TotalIterations), GoUint64(evidence.MaxIterations)>>)

evidenceHashCrunch(user, wp, evidence) ==
    [UserSecretVersion |-> user.UserSecretVersion,
     AuthenticatorVersion |-> "v1-blake3",
     Authenticator |-> Base64Encode(Blake3Sum(evidenceStringCrunch(user, wp, evidence)))]

\* a call of the single-worker evidenceHash; the two latest calls are kept
CallEvidenceHashCrunch ==
    /\ Len(hashIn) < 2
    /\ \E user \in UserCredentialsSet, wp \in WorkPacketSet, evidence \in WorkEvidenceSet :
          /\ hashIn' = Append(hashIn, [user |-> user, work |-> wp, evidence |-> evidence])
          /\ hashOut' = Append(hashOut, evidenceHashCrunch(user, wp, evidence))
    /\ UNCHANGED <<iterVars, progVars>>

NextHashCrunch == CallEvidenceHashCrunch

SpecHashCrunch == InitHash /\ [][NextHashCrunch]_vars

----------------------------------------------------------------------------
(* The stepper's contract *)

\* the Collatz map as the contract states it
Collatz(x) == IF x % 2 = 0 THEN x \div 2 ELSE 3 * x + 1

\* the value after k transitions from seed
RECURSIVE Orbit(_, _)
Orbit(seed, k) == IF k = 0 THEN seed ELSE Collatz(Orbit(seed, k - 1))

\* C1: iterate(s) follows n <- n/2 (n even), n <- 3n+1 (n odd) from n = s and
\* returns at the first step k >= 1 after which n <= s, with iterCount = k and
\* interesting = (n = s); the result is a boolean and iterCount >= 1.
C1_StepperResult ==
    pcIter # "off" =>
        /\ n = Orbit(s, iterCount)
        /\ \A j \in 1..(iterCount - 1) : Orbit(s, j) > s
        /\ pcIter = "loop" => (iterCount = 0 \/ n > s)
        /\ pcIter = "returned" =>
              /\ iterCount >= 1
              /\ n <= s
              /\ interesting \in BOOLEAN
              /\ interesting = (n = s)
              /\ iterate(s) = [interesting |-> interesting, iterCount |-> iterCount]

\* a seed that needs many transitions has returned, not interesting
C1_Witness ==
    pcIter = "returned" /\ s = 7 /\ iterCount = 11 /\ ~interesting /\ n = 5

\* C2: for every odd seed s > 0 of the range, iterate(s) eventually returns.
C2_StepperTerminates ==
    (pcIter = "loop" /\ s % 2 = 1) ~> (pcIter = "returned")

\* an odd seed above 1 has returned
C2_Witness ==
    pcIter = "returned" /\ s % 2 = 1 /\ s > 1 /\ iterCount > 10

----------------------------------------------------------------------------
(* The partitioner *)

\* the packets main has handed to a goroutine
Started == {k \in Workers : pcW[k] # "none"}

StartOf(k) == heap[work[k].StartingValue]
EndOf(k) == heap[work[k].EndingValue]

\* C3: the partitioning loop creates one packet per worker, in increasing order,
\* packet k with startingValue = I + k*B and endingValue = startingValue + B.
C3_PartitionerFormula ==
    /\ Started = {k \in Workers : k < workerID}
    /\ \A k \in Started :
          /\ StartOf(k) = initial0 + k * blocksize
          /\ EndOf(k) = StartOf(k) + blocksize
    /\ pcMain = "exit" => Started = Workers /\ Cardinality(Started) = NumWorkers

\* all four packets are out, the last one three blocks above the first
C3_Witness ==
    /\ pcMain = "exit" /\ initial0 = 3 /\ blocksize = 4
    /\ StartOf(3) = 15 /\ EndOf(3) = 19

\* the seeds a worker has passed to iterate
Scanned(k) == {invoked[k][i] : i \in 1..Len(invoked[k])}

\* C4: no seed is passed to iterate by two different workers, and the seeds
\* scanned by all workers together are exactly the odd integers of [I, I + W*B).
C4_PartitionExact ==
    /\ \A j, k \in Workers : j # k => Scanned(j) \cap Scanned(k) = {}
    /\ pcMain = "exit" =>
          UNION {Scanned(k) : k \in Workers}
             = {x \in initial0..(initial0 + NumWorkers * blocksize - 1) : x % 2 = 1}

----------------------------------------------------------------------------
(* The worker's scan *)

\* the odd numbers st, st + 2, ... up to en inclusive, in increasing order
OddsUpTo(st, en) == [i \in 1..((en - st) \div 2 + 1) |-> st + 2 * (i - 1)]

\* C5: run (parallel variant) invokes iterate exactly once on each odd integer
\* from startingValue to endingValue inclusive, in increasing order, and on no
\* other value.
C5_ScanSet ==
    pcW[0] = "log" => invoked[0] = OddsUpTo(StartOf(0), EndOf(0))

\* C6: run (single-worker variant) never invokes iterate on a value greater than
\* work.EndingValue.
C6_NeverPastEnding ==
    \A i \in 1..Len(invoked[0]) : invoked[0][i] <= EndOf(0)

RECURSIVE SumCounts(_)
SumCounts(seeds) ==
    IF seeds = << >> THEN 0
    ELSE iterate(Head(seeds)).iterCount + SumCounts(Tail(seeds))

MaxCount(seeds) ==
    IF seeds = << >> THEN 0
    ELSE LET cs == {iterate(seeds[i]).iterCount : i \in 1..Len(seeds)}
         IN  CHOOSE c \in cs : \A d \in cs : d <= c

IsInteresting(seed) == iterate(seed).interesting

\* C7: when run returns, totalIterations is the sum and maxIterations the maximum
\* of the counts iterate returned for the seeds it was invoked on, and the
\* interesting list holds exactly the seeds iterate reported interesting, in scan
\* order, with the values they had when they were found.
C7_Accumulation ==
    /\ pcW[0] \in {"loop", "ret", "log"} =>
          /\ totalIterations[0] = SumCounts(invoked[0])
          /\ maxIterations[0] = MaxCount(invoked[0])
    /\ pcW[0] = "log" =>
          /\ returned[0].totalIterations = SumCounts(invoked[0])
          /\ returned[0].maxIterations = MaxCount(invoked[0])
          /\ returned[0].interesting = SelectSeq(invoked[0], IsInteresting)

\* run has returned the seed 1 it found first, after the cursor moved on twice
C7_Witness ==
    /\ pcW[0] = "log" /\ invoked[0] = <<1, 3, 5>>
    /\ returned[0] = [totalIterations |-> 12, maxIterations |-> 6, interesting |-> <<1>>]

----------------------------------------------------------------------------
(* The join and the ownership of the packets *)

\* the goroutines that have been started and have not yet called wg.Done
Running == {k \in Workers : pcW[k] \in {"start", "loop", "ret", "log"}}

\* C8: main passes wg.Wait only after every worker has finished run and logged
\* its results; every goroutine is registered with the wait group before it
\* starts, so main never gets past the join while one is still running.
C8_JoinBarrier ==
    /\ pcMain = "exit" =>
          \A k \in Workers : pcW[k] = "done" /\ returned[k] # << >>
    /\ wg = Cardinality(Running)
             + (IF pcMain \in {"starting", "advance", "ending", "go"} THEN 1 ELSE 0)

\* main is past the join, after the last worker finished
C8_Witness ==
    pcMain = "exit" /\ wg = 0 /\ \A k \in Workers : pcW[k] = "done"

\* C9: from hand-off on, packet k's values stay I + k*B and I + (k+1)*B whatever
\* main and the other workers do, and what worker k returns is what a sequential
\* run over packet k alone returns.
C9_NoSharedMutableState ==
    \A k \in Started :
        /\ StartOf(k) = initial0 + k * blocksize
        /\ EndOf(k) = initial0 + (k + 1) * blocksize
        /\ pcW[k] \in {"log", "done"} =>
              returned[k] = RunSeq(initial0 + k * blocksize,
                                   initial0 + (k + 1) * blocksize)

\* worker 0 has returned while main still advances `initial` and worker 1 scans
C9_Witness ==
    /\ pcW[0] = "log" /\ pcW[1] = "loop" /\ pcMain = "ending" /\ workerID = 2
    /\ initial0 = 1 /\ returned[0].interesting = <<1>>

----------------------------------------------------------------------------
(* The authenticator *)

\* the fields joined by colons, in the order given
RECURSIVE JoinColon(_)
JoinColon(fields) ==
    IF Len(fields) = 1 THEN fields[1]
    ELSE fields[1] \o <<":">> \o JoinColon(Tail(fields))

\* the nine fields of a call, in the order the contract lists them
CanonicalFields(call) ==
    <<call.work.ID, call.work.Nonce,
      Decimal(call.work.StartingValue), Decimal(call.work.EndingValue),
      call.user.UserID, call.user.UserSecretVersion, call.user.UserSecret,
      Decimal(call.evidence.TotalIterations), Decimal(call.evidence.MaxIterations)>>

\* C10: evidenceHash returns {userSecretVersion of the credentials, "v1-blake3",
\* encoded digest of the colon-separated string of packet id, nonce, start, end,
\* user id, secret version, secret, totalIterations, maxIterations}; two calls
\* that agree on these inputs return the same authenticator, whenever made.
C10_AuthenticatorOfCanonicalString ==
    /\ \A i \in 1..Len(hashIn) :
          hashOut[i] =
             [UserSecretVersion |-> hashIn[i].user.UserSecretVersion,
              AuthenticatorVersion |-> "v1-blake3",
              Authenticator |->
                 Base64Encode(Blake3Sum(JoinColon(CanonicalFields(hashIn[i]))))]
    /\ \A i, j \in 1..Len(hashIn) :
          CanonicalFields(hashIn[i]) = CanonicalFields(hashIn[j])
             => hashOut[i] = hashOut[j]

\* two calls with the same nine inputs, made for packets assigned at different times
C10_Witness ==
    /\ Len(hashIn) = 2
    /\ CanonicalFields(hashIn[1]) = CanonicalFields(hashIn[2])
    /\ hashIn[1].work.AssignedOn # hashIn[2].work.AssignedOn
    /\ hashIn[1].work.EndingValue = 101 /\ hashIn[1].evidence.TotalIterations = 10
    /\ hashOut[1] = hashOut[2]

\* the nine inputs of a call, as given
InputFields(call) ==
    <<call.work.ID, call.work.Nonce, call.work.StartingValue, call.work.EndingValue,
      call.user.UserID, call.user.UserSecretVersion, call.user.UserSecret,
      call.evidence.TotalIterations, call.evidence.MaxIterations>>

\* the positions at which two calls' inputs differ
Differing(c1, c2) == {p \in 1..9 : InputFields(c1)[p] # InputFields(c2)[p]}

\* C11: (single-worker variant) changing any single one of the nine inputs while
\* the others are held fixed changes the authenticator digest.
C11_BindsEveryField ==
    Len(hashIn) = 2 /\ Cardinality(Differing(hashIn[1], hashIn[2])) = 1
       => hashOut[1].Authenticator # hashOut[2].Authenticator

----------------------------------------------------------------------------
(* The reported average *)

\* C12: the average iterations-per-candidate a worker reports for its block is
\* totalIterations divided by the number of candidates scanned in the block,
\* the number of calls of iterate run made for the packet.
C12_AveragePerCandidate ==
    \A k \in Workers :
        pcW[k] = "done" =>
            /\ logged[k].averageDividend = returned[k].totalIterations
            /\ logged[k].averageDivisor = Len(invoked[k])

----------------------------------------------------------------------------
(* Completion *)

\* C13: with a fair scheduler (and iterate returning on every seed scanned)
\* every worker's run eventually returns, for any packet, also one whose end has
\* the other parity or lies below its start, and main eventually passes the join.
C13_RunToCompletion ==
    <>(\/ pcMain = "exit" /\ \A k \in Workers : pcW[k] = "done"
       \/ pcMain = "off" /\ pcW[0] = "done")

\* run has returned for a packet that ends below its start
C13_Witness ==
    /\ pcMain = "off" /\ pcW[0] = "done" /\ wg = 0
    /\ EndOf(0) < StartOf(0) /\ invoked[0] = <<StartOf(0)>>

----------------------------------------------------------------------------
(* The trivial cycle *)

\* C14: iterate(1) returns (true, 3) by way of 1 -> 4 -> 2 -> 1; for every odd
\* seed from 3 up to the bound iterate returns false; so a block that starts
\* above 1 returns an empty interesting list and totalIterations > 0 (and one
\* that starts at 1 reports the seed 1 and nothing else).
C14_OnlyTrivialCycle ==
    /\ pcIter = "loop" /\ s = 1 => <<iterCount, n>> \in {<<0, 1>>, <<1, 4>>, <<2, 2>>}
    /\ pcIter = "returned" =>
          /\ s = 1 => interesting /\ iterCount = 3 /\ n = 1
          /\ s % 2 = 1 /\ s >= 3 => ~interesting
    /\ pcIter = "off" /\ pcW[0] = "log" =>
          /\ returned[0].totalIterations > 0
          /\ returned[0].interesting = IF StartOf(0) > 1 THEN << >> ELSE <<1>>

\* iterate has come back to the seed 1 after three passes
C14_Witness ==
    pcIter = "returned" /\ s = 1 /\ interesting /\ iterCount = 3 /\ n = 1

----------------------------------------------------------------------------
(* The canonical string as an encoding of the inputs *)

\* C15: (parallel variant) two calls whose nine inputs are not all the same
\* never get the same colon-separated string, and so never the same
\* authenticator, also when the packet id or the nonce contains a colon.
C15_CanonicalStringUnambiguous ==
    \A i, j \in 1..Len(hashIn) :
        InputFields(hashIn[i]) # InputFields(hashIn[j]) =>
            /\ evidenceString(hashIn[i].user, hashIn[i].work, hashIn[i].evidence)
                  # evidenceString(hashIn[j].user, hashIn[j].work, hashIn[j].evidence)
            /\ hashOut[i].Authenticator # hashOut[j].Authenticator

====
